---- MODULE Spec2Model ----
(***************************************************************************)
(* A model of src/tui.py: the Textual front-end of simple-devenv.          *)
(*                                                                         *)
(* Text is modelled as a sequence of one-character strings, so that        *)
(* str.strip, str.lower, the `in` substring test and the pathlib join are  *)
(* computed rather than assumed.  A path is a record [root, parts] as      *)
(* PurePosixPath keeps it.  None is a sentinel of the same type as the     *)
(* values it stands beside.                                                *)
(***************************************************************************)
EXTENDS Integers, Sequences, FiniteSets, TLC

(***************************************************************************)
(* Bounds of the model.                                                    *)
(***************************************************************************)
\* longest path (in components) a folder creation is followed to
MaxDepth == 3
\* entries the two listing calls of one load return, taken together
MaxFetch == 3
\* longest query typed into the Repository Picker's search box
MaxQueryLen == 2
\* most entries of one directory level handed to the Path Filter
MaxEntries == 3

(***************************************************************************)
(* Text.                                                                   *)
(***************************************************************************)
EmptyStr == <<>>

\* Python's None where a str is expected (never equal to a typed text)
NoneStr == <<"<None>">>

\* str.lower on one character of the model's alphabet
LowerChar(c) ==
    CASE c = "A" -> "a"
      [] c = "B" -> "b"
      [] OTHER -> c

RECURSIVE lower(_)
\* str.lower
lower(s) == IF s = <<>> THEN <<>> ELSE <<LowerChar(Head(s))>> \o lower(Tail(s))

\* code points, for the ordering of str
CharOrd(c) ==
    CASE c = " " -> 32
      [] c = "." -> 46
      [] c = "/" -> 47
      [] c = "A" -> 65
      [] c = "B" -> 66
      [] c = "a" -> 97
      [] c = "b" -> 98
      [] OTHER -> 120

RECURSIVE StrLess(_, _)
\* s < t on str: lexicographic by code point
StrLess(s, t) ==
    IF t = <<>> THEN FALSE
    ELSE IF s = <<>> THEN TRUE
    ELSE IF CharOrd(Head(s)) # CharOrd(Head(t)) THEN CharOrd(Head(s)) < CharOrd(Head(t))
    ELSE StrLess(Tail(s), Tail(t))

\* sub in s
Contains(sub, s) ==
    \E i \in 0..(Len(s) - Len(sub)) : SubSeq(s, i + 1, i + Len(sub)) = sub

RECURSIVE lstrip(_)
lstrip(s) == IF s # <<>> /\ Head(s) = " " THEN lstrip(Tail(s)) ELSE s

RECURSIVE rstrip(_)
rstrip(s) ==
    IF s # <<>> /\ s[Len(s)] = " " THEN rstrip(SubSeq(s, 1, Len(s) - 1)) ELSE s

\* str.strip
strip(s) == rstrip(lstrip(s))

\* every text of length at most n over the alphabet
RECURSIVE Texts(_, _)
Texts(alphabet, n) ==
    IF n = 0 THEN {<<>>}
    ELSE LET shorter == Texts(alphabet, n - 1)
         IN  shorter \cup {Append(s, c) : s \in shorter, c \in alphabet}

(***************************************************************************)
(* Paths (pathlib.PurePosixPath).                                          *)
(***************************************************************************)
\* Python's None where a Path is expected
NoPath == [root |-> <<"<None>">>, parts |-> <<>>]

RECURSIVE SplitSlash(_, _)
\* s.split("/"), cur being the component read so far
SplitSlash(s, cur) ==
    IF s = <<>> THEN <<cur>>
    ELSE IF Head(s) = "/" THEN <<cur>> \o SplitSlash(Tail(s), <<>>)
    ELSE SplitSlash(Tail(s), Append(cur, Head(s)))

IsRealPart(c) == c # <<>> /\ c # <<".">>

\* the components pathlib keeps of a text: empty ones and "." are dropped
PathParts(s) == SelectSeq(SplitSlash(s, <<>>), IsRealPart)

RECURSIVE LeadingSlashes(_)
LeadingSlashes(s) ==
    IF s # <<>> /\ Head(s) = "/" THEN 1 + LeadingSlashes(Tail(s)) ELSE 0

\* the root pathlib gives a text: exactly two leading slashes are kept
PathRoot(s) ==
    LET n == LeadingSlashes(s)
    IN  IF n = 0 THEN <<>> ELSE IF n = 2 THEN <<"/", "/">> ELSE <<"/">>

\* p / s for a Path p and a str s: an absolute s replaces p
JoinPath(p, s) ==
    IF PathRoot(s) # <<>>
    THEN [root |-> PathRoot(s), parts |-> PathParts(s)]
    ELSE [root |-> p.root, parts |-> p.parts \o PathParts(s)]

RECURSIVE JoinParts(_)
JoinParts(parts) ==
    IF parts = <<>> THEN <<>>
    ELSE IF Len(parts) = 1 THEN Head(parts)
    ELSE Head(parts) \o <<"/">> \o JoinParts(Tail(parts))

\* str(p)
PathStr(p) ==
    IF p.root = <<>> /\ p.parts = <<>> THEN <<".">> ELSE p.root \o JoinParts(p.parts)

\* p.name: the last component, "" for a root
PathName(p) == IF p.parts = <<>> THEN <<>> ELSE p.parts[Len(p.parts)]

\* Path.home()
Home == [root |-> <<"/">>, parts |-> << <<"h">> >>]

(***************************************************************************)
(* The filesystem: the set of directories that exist, each by its          *)
(* components from "/" (the roots "/" and "//" name the same directory).   *)
(* The names typed in the model hold no "..", so no component is resolved. *)
(***************************************************************************)
Prefixes(parts) == {SubSeq(parts, 1, n) : n \in 0..Len(parts)}

\* Path.mkdir(parents, exist_ok); refused: the system refuses (permissions, ...)
Mkdir(fsys, p, parents, exist_ok, refused) ==
    IF refused THEN [err |-> "OSError", fs |-> fsys]
    ELSE IF p.parts \in fsys
    THEN [err |-> IF exist_ok THEN "none" ELSE "FileExistsError", fs |-> fsys]
    ELSE IF ~parents /\ SubSeq(p.parts, 1, Len(p.parts) - 1) \notin fsys
    THEN [err |-> "FileNotFoundError", fs |-> fsys]
    ELSE [err |-> "none", fs |-> fsys \cup Prefixes(p.parts)]

\* a slip: a dot anywhere in the name hides the entry
IsHiddenNameAnyDot(n) == \E k \in 1..Len(n) : n[k] = "."

\* p.name.startswith(".")
IsHiddenName(n) == n # <<>> /\ Head(n) = "."

NotHidden(p) == ~IsHiddenName(PathName(p))

\* FilteredDirectoryTree.filter_paths
filter_paths(paths) == SelectSeq(paths, NotHidden)

RECURSIVE SeqOfSet(_)
\* the entries of a set in the order a directory scan happens to give them
SeqOfSet(S) ==
    IF S = {} THEN <<>>
    ELSE LET x == CHOOSE y \in S : TRUE IN <<x>> \o SeqOfSet(S \ {x})

\* the directories right under p
Listing(fsys, p) ==
    SeqOfSet({[root |-> p.root, parts |-> d] : d \in
        {e \in fsys : Len(e) = Len(p.parts) + 1 /\ SubSeq(e, 1, Len(p.parts)) = p.parts}})

SeqRange(s) == {s[i] : i \in 1..Len(s)}

RECURSIVE TreeNodes(_, _)
\* the nodes of the tree rooted at p: p, and under every node the entries
\* filter_paths lets through
TreeNodes(fsys, p) ==
    {p} \cup UNION {TreeNodes(fsys, c) : c \in SeqRange(filter_paths(Listing(fsys, p)))}

(***************************************************************************)
(* State.                                                                  *)
(***************************************************************************)
VARIABLES
    screen,             \* the screen on top: "main", "dir", "repo"
    target_dir,         \* SimpleDevEnvApp.target_dir
    target_dir_display, \* the text of #target-dir-display
    github_repos,       \* SimpleDevEnvApp.github_repos, the Candidate Cache
    selected_repo,      \* SimpleDevEnvApp.selected_repo
    repo_display,       \* the text of #repo-display
    status,             \* the text and style of #status-bar
    log,                \* the lines of #log
    focus,              \* the widget of the main screen that has the focus
    fs,                 \* the directories of the filesystem
    start_path,         \* DirectoryPickerScreen.start_path
    selected_path,      \* DirectoryPickerScreen.selected_path
    dir_input,          \* the value of #new-folder-input
    dir_readout,        \* the text of #selected-path
    tree,               \* the nodes the directory tree shows
    created,            \* the folder this picker session created last, as typed
    repos,              \* RepoPickerScreen.repos
    filtered_repos,     \* RepoPickerScreen.filtered_repos
    options,            \* the options of #repo-list
    query,              \* the value of #search-input
    selected_url,       \* RepoPickerScreen.selected_url
    gh_calls,           \* listing calls issued by the latest on_select_repo
    pc,                 \* where run_setup stands; "ui" outside it
    ui,                 \* "INTERACTIVE_UI" or "FOREGROUND_PROCESS"
    run,                \* the arguments and child of the handoff in flight
    trace,              \* the events of the latest handoff, in order
    last                \* the latest handler and what it was given and gave back

appVars == <<target_dir, target_dir_display, github_repos, selected_repo,
             repo_display, status, log>>
dirVars == <<start_path, selected_path, dir_input, dir_readout, tree, created>>
repoVars == <<repos, filtered_repos, options, query, selected_url>>
runVars == <<pc, ui, run, trace>>
vars == <<screen, appVars, focus, fs, dirVars, repoVars, gh_calls, runVars, last>>

\* SimpleDevEnvApp.update_status: the message, its number if it has one, its style
update_status(message, arg, error, success) ==
    [msg |-> message, arg |-> arg,
     style |-> IF error THEN "error" ELSE IF success THEN "success" ELSE "plain"]

\* a slip: the readout is updated without saying what happened
ReadoutBlank(kind, text) == [kind |-> "", text |-> text]

\* the text of #selected-path: what it announces ("Current", "Selected",
\* "Created & Selected", "Error") and the path it shows
Readout(kind, text) == [kind |-> kind, text |-> text]

\* no handoff yet
NoRun == [started |-> FALSE]

\* the directories that exist when the program starts: home, a hidden folder
\* and a visible one in it
InitialDirs ==
    Prefixes(<< <<"h">>, <<".", "c">> >>) \cup Prefixes(<< <<"h">>, <<"s">> >>)

\* no folder created yet in this picker session
NoCreate == [typed |-> <<>>, path |-> NoPath]

\* no picker is open
DirPickerClosed ==
    /\ start_path = NoPath
    /\ selected_path = NoPath
    /\ dir_input = <<>>
    /\ dir_readout = Readout("", <<>>)
    /\ tree = {}
    /\ created = NoCreate

RepoPickerClosed ==
    /\ repos = <<>>
    /\ filtered_repos = <<>>
    /\ options = <<>>
    /\ query = <<>>
    /\ selected_url = NoneStr

\* the main screen with a given form and nothing else open
MainScreen(directory, cache, chosen, chosen_name, shown) ==
    /\ screen = "main"
    /\ target_dir = directory
    /\ target_dir_display = PathStr(directory)
    /\ github_repos = cache
    /\ selected_repo = chosen
    /\ repo_display = chosen_name
    /\ status = shown
    /\ log = <<>>
    /\ focus = "project-name"
    /\ fs = InitialDirs
    /\ DirPickerClosed
    /\ RepoPickerClosed
    /\ gh_calls = 0
    /\ pc = "ui"
    /\ ui = "INTERACTIVE_UI"
    /\ run = NoRun
    /\ trace = <<>>
    /\ last = [op |-> "init"]

\* SimpleDevEnvApp.__init__ and compose
Init ==
    MainScreen(JoinPath(Home, <<"o">>), <<>>, EmptyStr, <<"(none)">>,
               update_status("Ready", 0, FALSE, FALSE))

(***************************************************************************)
(* The Directory Picker.                                                   *)
(***************************************************************************)
\* the texts typed into #new-folder-input
FolderNames ==
    { <<>>, <<" ">>, <<"s">>, <<" ", "s", " ">>, <<".">>, <<"/", "s">> }

\* DirectoryPickerScreen.__init__: start_path or Path.home()
PickerStart(given) == IF given = NoPath THEN Home ELSE given

\* SimpleDevEnvApp.on_browse, then DirectoryPickerScreen.__init__ and compose
on_browse ==
    /\ screen = "main" /\ pc = "ui"
    /\ screen' = "dir"
    /\ start_path' = PickerStart(Home)
    /\ selected_path' = NoPath
    /\ dir_input' = <<>>
    /\ dir_readout' = Readout("Current", PathStr(PickerStart(Home)))
    /\ tree' = TreeNodes(fs, PickerStart(Home))
    /\ created' = NoCreate
    /\ focus' = "browse-btn"
    /\ last' = [op |-> "on_browse"]
    /\ UNCHANGED <<appVars, fs, repoVars, gh_calls, runVars>>

\* the operator edits #new-folder-input
dir_input_changed(v) ==
    /\ screen = "dir" /\ pc = "ui"
    /\ v # dir_input
    /\ dir_input' = v
    /\ last' = [op |-> "dir_input_changed"]
    /\ UNCHANGED <<focus, screen, appVars, fs, start_path, selected_path, dir_readout,
                   tree, created, repoVars, gh_calls, runVars>>

\* DirectoryPickerScreen.on_directory_selected
on_directory_selected(path) ==
    /\ screen = "dir" /\ pc = "ui"
    /\ path \in tree
    /\ selected_path' = path
    /\ dir_readout' = Readout("Selected", PathStr(path))
    /\ last' = [op |-> "on_directory_selected"]
    /\ UNCHANGED <<focus, screen, appVars, fs, start_path, dir_input, tree, created,
                   repoVars, gh_calls, runVars>>

\* a slip: the new folder always goes under start_path
CreateParentIgnoresSelection(selected, start) == start

\* on_create_folder: parent = self.selected_path or self.start_path
CreateParent(selected, start) == IF selected = NoPath THEN start ELSE selected

\* on_create_folder: new_path = parent / folder_name
CreateTarget(parent, folder_name) == JoinPath(parent, folder_name)

\* on_create_folder: new_path.mkdir(parents=True, exist_ok=True)
CreateMkdir(fsys, new_path, refused) == Mkdir(fsys, new_path, TRUE, TRUE, refused)

\* DirectoryPickerScreen.on_create_folder
on_create_folder(refused) ==
    /\ screen = "dir" /\ pc = "ui"
    /\ LET folder_name == strip(dir_input)
           parent == CreateParent(selected_path, start_path)
           new_path == CreateTarget(parent, folder_name)
           made == CreateMkdir(fs, new_path, refused)
       IN  IF folder_name = <<>>
           THEN /\ last' = [op |-> "on_create_folder", before |-> selected_path,
                            typed |-> dir_input, err |-> "return", prev |-> created]
                /\ UNCHANGED <<fs, dirVars>>
           ELSE /\ Len(new_path.parts) <= MaxDepth
                /\ fs' = made.fs
                /\ last' = [op |-> "on_create_folder", before |-> selected_path,
                            typed |-> dir_input, err |-> made.err, prev |-> created]
                /\ IF made.err = "none"
                   THEN /\ selected_path' = new_path
                        /\ dir_readout' = Readout("Created & Selected", PathStr(new_path))
                        /\ dir_input' = <<>>
                        /\ tree' = TreeNodes(made.fs, start_path)
                        /\ created' = [typed |-> dir_input, path |-> new_path]
                   ELSE /\ dir_readout' = Readout("Error", <<>>)
                        /\ UNCHANGED <<selected_path, dir_input, tree, created>>
                /\ UNCHANGED start_path
    /\ UNCHANGED <<focus, screen, appVars, repoVars, gh_calls, runVars>>

\* a slip: the callback takes whatever the picker hands back
on_directory_picked_unguarded(path) ==
    /\ target_dir' = path
    /\ target_dir_display' = PathStr(path)

\* SimpleDevEnvApp.on_directory_picked
on_directory_picked(path) ==
    IF path # NoPath
    THEN /\ target_dir' = path
         /\ target_dir_display' = PathStr(path)
    ELSE UNCHANGED <<target_dir, target_dir_display>>

CloseDirPicker ==
    /\ screen' = "main"
    /\ start_path' = NoPath
    /\ selected_path' = NoPath
    /\ dir_input' = <<>>
    /\ dir_readout' = Readout("", <<>>)
    /\ tree' = {}
    /\ created' = NoCreate

\* a slip: Select hands back the selection as it is, None included
DirSelectResultRaw(selected, start) == selected

\* DirectoryPickerScreen.on_select: result = self.selected_path or self.start_path
DirSelectResult(selected, start) == IF selected = NoPath THEN start ELSE selected

\* DirectoryPickerScreen.action_cancel: self.dismiss(None)
DirCancelResult(selected, start) == NoPath

\* DirectoryPickerScreen.on_select, and the callback its dismissal runs
dir_on_select ==
    /\ screen = "dir" /\ pc = "ui"
    /\ on_directory_picked(DirSelectResult(selected_path, start_path))
    /\ last' = [op |-> "dir_on_select", had |-> selected_path, start |-> start_path,
                path |-> DirSelectResult(selected_path, start_path)]
    /\ CloseDirPicker
    /\ UNCHANGED <<focus, github_repos, selected_repo, repo_display, status, log,
                   fs, repoVars, gh_calls, runVars>>

\* DirectoryPickerScreen.action_cancel (the Cancel button or escape), and the
\* callback its dismissal runs
dir_action_cancel ==
    /\ screen = "dir" /\ pc = "ui"
    /\ on_directory_picked(DirCancelResult(selected_path, start_path))
    /\ last' = [op |-> "dir_action_cancel", had |-> selected_path, start |-> start_path,
                path |-> DirCancelResult(selected_path, start_path)]
    /\ CloseDirPicker
    /\ UNCHANGED <<focus, github_repos, selected_repo, repo_display, status, log,
                   fs, repoVars, gh_calls, runVars>>

NextDir ==
    \/ on_browse
    \/ \E v \in FolderNames : dir_input_changed(v)
    \/ \E path \in tree : on_directory_selected(path)
    \/ \E refused \in BOOLEAN : on_create_folder(refused)
    \/ dir_on_select
    \/ dir_action_cancel

\* the program when only the Directory Picker is used
SpecDir == Init /\ [][NextDir]_vars

(***************************************************************************)
(* The Candidate Cache.                                                    *)
(***************************************************************************)
\* a (name, url) tuple of the listing
Repo(name, url) == [name |-> name, url |-> url]

\* the repositories the listing calls may report: two names on one url, and
\* two names that differ by case only
RepoUniverse ==
    { Repo(<<"a", "b">>, <<"u1">>), Repo(<<"A">>, <<"u1">>), Repo(<<"a">>, <<"u2">>) }

RECURSIVE SeqsUpTo(_, _)
SeqsUpTo(S, n) ==
    IF n = 0 THEN {<<>>}
    ELSE LET shorter == SeqsUpTo(S, n - 1)
         IN  shorter \cup {Append(s, x) : s \in shorter, x \in S}

\* what one `gh repo list` call can come to: "ok" is exit status 0 with a JSON
\* list, "nonzero" another exit status, "absent" no gh to run, "unusable" exit
\* status 0 with output json.loads or the field lookup rejects
Outcomes(n) ==
    {[kind |-> "ok", entries |-> l] : l \in SeqsUpTo(RepoUniverse, n)}
        \cup {[kind |-> k, entries |-> <<>>] : k \in {"nonzero", "absent", "unusable"}}

\* the outcomes of at most n entries, for every n the model follows
OutcomesUpTo == [n \in 0..MaxFetch |-> Outcomes(n)]

\* the call that was never made
NotIssued == [kind |-> "none", entries |-> <<>>]

\* one subprocess.run with its `if result.returncode == 0` block
AfterCall(all_repos, o) ==
    CASE o.kind = "absent" -> [raised |-> "FileNotFoundError", all |-> all_repos]
      [] o.kind = "unusable" -> [raised |-> "Exception", all |-> all_repos]
      [] o.kind = "nonzero" -> [raised |-> "none", all |-> all_repos]
      [] OTHER -> [raised |-> "none", all |-> all_repos \o o.entries]

\* the two calls of the try block, the second not made when the first raises
LoadCalls(o1, o2) ==
    LET c1 == AfterCall(<<>>, o1)
    IN  IF c1.raised # "none"
        THEN [raised |-> c1.raised, all |-> c1.all, calls |-> 1]
        ELSE LET c2 == AfterCall(c1.all, o2)
             IN  [raised |-> c2.raised, all |-> c2.all, calls |-> 2]

\* the messages a failed load leaves in the status bar
LoadFailures ==
    { "gh CLI not found. Install it", "Error loading repos",
      "Failed to load repos. Is gh authenticated?" }

\* a slip: the cache is reloaded on every invocation
NeedsLoadAlways(cache) == TRUE

\* on_select_repo: if not self.github_repos
NeedsLoad(cache) == cache = <<>>

\* a slip: an empty result is taken for a load
NothingLoadedNever(all_repos) == FALSE

\* on_select_repo: if not all_repos
NothingLoaded(all_repos) == all_repos = <<>>

\* set(all_repos): equal (name, url) tuples collapse
DedupSet(all_repos) == SeqRange(all_repos)

\* a slip: the sort goes by the url, x[1]
SortKeyUrl(r) == r.url

\* the key of the sort: x[0].lower()
SortKey(r) == lower(r.name)

RECURSIVE SortedOrders(_)
\* sorted(S, key=...): every order of S with non-decreasing keys; entries with
\* equal keys stand in the order the set happens to iterate in
SortedOrders(S) ==
    IF S = {} THEN {<<>>}
    ELSE UNION { {<<m>> \o rest : rest \in SortedOrders(S \ {m})} :
                 m \in {x \in S : \A y \in S : ~StrLess(SortKey(y), SortKey(x))} }

(***************************************************************************)
(* The Repository Picker.                                                  *)
(***************************************************************************)
\* the texts typed into #search-input
Queries == Texts({"a", "B"}, MaxQueryLen)

\* RepoPickerScreen.__init__ and compose
OpenRepoPicker(candidates) ==
    /\ screen' = "repo"
    /\ repos' = candidates
    /\ filtered_repos' = candidates
    /\ options' = candidates
    /\ query' = <<>>
    /\ selected_url' = NoneStr

\* SimpleDevEnvApp.on_select_repo, then RepoPickerScreen.__init__ and compose
on_select_repo ==
    /\ screen = "main" /\ pc = "ui"
    /\ \/ /\ ~NeedsLoad(github_repos)
          /\ gh_calls' = 0
          /\ OpenRepoPicker(github_repos)
          /\ last' = [op |-> "on_select_repo", cached |-> TRUE,
                      fetch |-> <<NotIssued, NotIssued>>, retry |-> status.msg \in LoadFailures]
          /\ UNCHANGED <<github_repos, status>>
       \/ /\ NeedsLoad(github_repos)
          /\ \E o1 \in OutcomesUpTo[MaxFetch] :
             \E o2 \in OutcomesUpTo[MaxFetch - Len(o1.entries)] :
                LET r == LoadCalls(o1, o2)
                IN  /\ gh_calls' = r.calls
                    /\ last' = [op |-> "on_select_repo", cached |-> FALSE,
                                fetch |-> <<o1, IF r.calls = 2 THEN o2 ELSE NotIssued>>,
                                retry |-> status.msg \in LoadFailures]
                    /\ IF r.raised = "FileNotFoundError"
                       THEN /\ status' = update_status("gh CLI not found. Install it", 0, TRUE, FALSE)
                            /\ UNCHANGED <<screen, github_repos, repoVars>>
                       ELSE IF r.raised = "Exception"
                       THEN /\ status' = update_status("Error loading repos", 0, TRUE, FALSE)
                            /\ UNCHANGED <<screen, github_repos, repoVars>>
                       ELSE IF NothingLoaded(r.all)
                       THEN /\ status' = update_status("Failed to load repos. Is gh authenticated?", 0, TRUE, FALSE)
                            /\ UNCHANGED <<screen, github_repos, repoVars>>
                       ELSE \E cache \in SortedOrders(DedupSet(r.all)) :
                            /\ github_repos' = cache
                            /\ status' = update_status("Loaded repos", Len(cache), FALSE, FALSE)
                            /\ OpenRepoPicker(cache)
    /\ focus' = "select-repo-btn"
    /\ UNCHANGED <<target_dir, target_dir_display, selected_repo, repo_display, log,
                   fs, dirVars, runVars>>

RECURSIVE FilterRepos(_, _)
\* [(name, url) for name, url in source if search_term in name.lower()]
FilterRepos(source, search_term) ==
    IF source = <<>> THEN <<>>
    ELSE (IF Contains(search_term, lower(Head(source).name)) THEN <<Head(source)>> ELSE <<>>)
             \o FilterRepos(Tail(source), search_term)

\* a slip: the filter narrows the subset shown instead of the full list
SearchSourceShown(full, shown) == shown

\* on_search_changed: `for name, url in self.repos`
SearchSource(full, shown) == full

\* RepoPickerScreen.on_search_changed
on_search_changed(value) ==
    /\ screen = "repo" /\ pc = "ui"
    /\ value # query
    /\ query' = value
    /\ filtered_repos' = FilterRepos(SearchSource(repos, filtered_repos), lower(value))
    /\ options' = FilterRepos(SearchSource(repos, filtered_repos), lower(value))
    /\ last' = [op |-> "on_search_changed", from |-> query]
    /\ UNCHANGED <<focus, screen, appVars, fs, dirVars, repos, selected_url, gh_calls, runVars>>

\* str(event.option.id) if event.option.id else None
OptionId(option) == IF option.url # <<>> THEN option.url ELSE NoneStr

\* RepoPickerScreen.on_option_highlighted
on_option_highlighted(option) ==
    /\ screen = "repo" /\ pc = "ui"
    /\ option \in SeqRange(options)
    /\ selected_url' = OptionId(option)
    /\ last' = [op |-> "on_option_highlighted"]
    /\ UNCHANGED <<focus, screen, appVars, fs, dirVars, repos, filtered_repos, options, query,
                   gh_calls, runVars>>

\* RepoPickerScreen.on_option_selected
on_option_selected(option) ==
    /\ screen = "repo" /\ pc = "ui"
    /\ option \in SeqRange(options)
    /\ selected_url' = OptionId(option)
    /\ last' = [op |-> "on_option_selected"]
    /\ UNCHANGED <<focus, screen, appVars, fs, dirVars, repos, filtered_repos, options, query,
                   gh_calls, runVars>>

\* next((n for n, u in self.github_repos if u == url), url)
NameOfUrl(cache, url) ==
    IF \E i \in 1..Len(cache) : cache[i].url = url
    THEN cache[CHOOSE i \in 1..Len(cache) :
                   cache[i].url = url /\ \A j \in 1..(i - 1) : cache[j].url # url].name
    ELSE url

\* SimpleDevEnvApp.on_repo_picked
on_repo_picked(url) ==
    IF url = NoneStr
    THEN UNCHANGED <<selected_repo, repo_display>>
    ELSE /\ selected_repo' = url
         /\ repo_display' = IF url # <<>> THEN NameOfUrl(github_repos, url) ELSE <<"(none)">>

CloseRepoPicker ==
    /\ screen' = "main"
    /\ repos' = <<>>
    /\ filtered_repos' = <<>>
    /\ options' = <<>>
    /\ query' = <<>>
    /\ selected_url' = NoneStr

\* RepoPickerScreen.on_select: self.dismiss(self.selected_url)
RepoSelectResult(selected) == selected

\* a slip: Clear hands back the tracked identifier
RepoClearResultTracked(selected) == selected

\* RepoPickerScreen.on_clear: self.dismiss("")
RepoClearResult(selected) == EmptyStr

\* RepoPickerScreen.action_cancel: self.dismiss(None)
RepoCancelResult(selected) == NoneStr

\* a dismissal of the Repository Picker with `result`, and the callback it runs
RepoDismiss(op, result) ==
    /\ screen = "repo" /\ pc = "ui"
    /\ on_repo_picked(result)
    /\ last' = [op |-> op, had |-> selected_url, url |-> result,
                repo_before |-> selected_repo, display_before |-> repo_display,
                shown |-> filtered_repos]
    /\ CloseRepoPicker
    /\ UNCHANGED <<focus, target_dir, target_dir_display, github_repos, status, log, fs,
                   dirVars, gh_calls, runVars>>

\* RepoPickerScreen.on_select
repo_on_select == RepoDismiss("repo_on_select", RepoSelectResult(selected_url))

\* RepoPickerScreen.on_clear
repo_on_clear == RepoDismiss("repo_on_clear", RepoClearResult(selected_url))

\* RepoPickerScreen.action_cancel (the Cancel button or escape)
repo_action_cancel == RepoDismiss("repo_action_cancel", RepoCancelResult(selected_url))

NextRepo ==
    \/ on_select_repo
    \/ \E value \in Queries : on_search_changed(value)
    \/ \E option \in RepoUniverse : on_option_highlighted(option)
    \/ \E option \in RepoUniverse : on_option_selected(option)
    \/ repo_on_select
    \/ repo_on_clear
    \/ repo_action_cancel

\* the program when only the repository selection is used
SpecRepo == Init /\ [][NextRepo]_vars

(***************************************************************************)
(* Form submission and the Execution Handoff.                              *)
(***************************************************************************)
RECURSIVE Without(_, _)
\* s.replace(c, "")
Without(s, c) ==
    IF s = <<>> THEN <<>>
    ELSE (IF Head(s) = c THEN <<>> ELSE <<Head(s)>>) \o Without(Tail(s), c)

\* str.isalnum: at least one character, and letters and digits only
isalnum(s) ==
    /\ s # <<>>
    /\ \A k \in 1..Len(s) : s[k] \in {"a", "b", "A", "B", "p", "d", "1", "8"}

\* on_create: project_name.replace("-", "").replace("_", "").isalnum()
NameIsValid(project_name) == isalnum(Without(Without(project_name, "-"), "_"))

\* the texts typed into #project-name
ProjectNames ==
    { <<>>, <<" ">>, <<"-">>, <<"p", " ", "!">>, <<" ", "p", "-", "1", "_", "8">> }

\* the texts typed into #db-name
DbNames == { <<>>, <<" ">>, <<"d">> }

\* the values of #odoo-version
Versions == { "18.0", "master" }

\* the exit statuses of the script as subprocess reports them (negative: killed
\* by that signal)
ExitCodes == { 0, 3, 0 - 9 }

\* the variables of the environment the model follows
EnvKeys == { "BASE_PATH", "DB_NAME", "INSTALL_PRECOMMIT", "CLONE_REPO", "PATH" }

\* a variable that is not set
Unset == NoneStr

NoEnv == [k \in EnvKeys |-> Unset]

\* the environments the program may be started in
Environs ==
    { [NoEnv EXCEPT !["PATH"] = <<"/">>],
      [NoEnv EXCEPT !["DB_NAME"] = <<"a">>, !["BASE_PATH"] = <<"/">>],
      [NoEnv EXCEPT !["INSTALL_PRECOMMIT"] = <<"b">>, !["CLONE_REPO"] = <<"a">>] }

\* run_setup: env = os.environ.copy() and the four assignments
SetupEnv(inherited, base, db_name, install_precommit, clone_repo) ==
    [k \in EnvKeys |->
        CASE k = "BASE_PATH" -> PathStr(base)
          [] k = "DB_NAME" /\ db_name # <<>> -> db_name
          [] k = "INSTALL_PRECOMMIT" /\ install_precommit -> <<"1">>
          [] k = "CLONE_REPO" /\ clone_repo # <<>> -> clone_repo
          [] OTHER -> inherited[k]]

\* a slip: the exit status is reduced to success or failure
ReturnCodeFlattened(exit_status) == IF exit_status = 0 THEN 0 ELSE 1

\* subprocess.run(...).returncode
ReturnCode(exit_status) == exit_status

\* a slip: a submission is handled while a handoff is in flight
HandlerFreeAlways(at) == TRUE

\* run_setup is an ordinary (blocking) method run by the message handler
\* on_create: the next message is handled once it has returned
HandlerFree(at) == at = "ui"

\* SimpleDevEnvApp.on_create, and run_setup up to `with self.suspend()`
on_create(name_typed, version, db_typed, install_precommit, script_exists, inherited) ==
    /\ screen = "main" /\ HandlerFree(pc)
    /\ LET project_name == strip(name_typed)
           db_name == strip(db_typed)
           clone_repo == selected_repo
           given == [name_typed |-> name_typed]
       IN  IF project_name = <<>>
           THEN /\ status' = update_status("Please enter a project name", 0, TRUE, FALSE)
                /\ focus' = "project-name"
                /\ last' = [op |-> "on_create", outcome |-> "rejected", given |-> given]
                /\ UNCHANGED runVars
           ELSE IF ~NameIsValid(project_name)
           THEN /\ status' = update_status(
                       "Project name should only contain letters, numbers, - and _",
                       0, TRUE, FALSE)
                /\ focus' = "create-btn"
                /\ last' = [op |-> "on_create", outcome |-> "rejected", given |-> given]
                /\ UNCHANGED runVars
           ELSE IF ~script_exists
           THEN /\ status' = update_status("Setup script not found!", 0, TRUE, FALSE)
                /\ focus' = "create-btn"
                /\ last' = [op |-> "on_create", outcome |-> "no script", given |-> given]
                /\ UNCHANGED runVars
           ELSE /\ pc' = "suspended"
                /\ ui' = "FOREGROUND_PROCESS"
                /\ run' = [project_name |-> project_name, odoo_version |-> version,
                           db_name |-> db_name, install_precommit |-> install_precommit,
                           clone_repo |-> clone_repo, base |-> target_dir,
                           inherited |-> inherited,
                           env |-> SetupEnv(inherited, target_dir, db_name,
                                            install_precommit, clone_repo),
                           started |-> FALSE, exit_status |-> 0, returncode |-> 0,
                           printed |-> "banner"]
                /\ trace' = <<"suspend">>
                /\ focus' = "create-btn"
                /\ last' = [op |-> "on_create", outcome |-> "suspended", given |-> given]
                /\ UNCHANGED status
    /\ UNCHANGED <<screen, target_dir, target_dir_display, github_repos, selected_repo,
                   repo_display, log, fs, dirVars, repoVars, gh_calls>>

\* run_setup: subprocess.run starts bash, or finds none to start; the error then
\* leaves the with block (the display comes back) and the handler, uncaught
spawn(bash_found) ==
    /\ pc = "suspended"
    /\ IF bash_found
       THEN /\ pc' = "running"
            /\ run' = [run EXCEPT !.started = TRUE]
            /\ trace' = Append(trace, "start")
            /\ UNCHANGED ui
       ELSE /\ pc' = "crashed"
            /\ ui' = "INTERACTIVE_UI"
            /\ trace' = Append(trace, "resume")
            /\ UNCHANGED run
    /\ last' = [op |-> "spawn"]
    /\ UNCHANGED <<screen, appVars, focus, fs, dirVars, repoVars, gh_calls>>

\* run_setup: the script ends, subprocess.run returns, the result is printed
\* and input() waits for the operator
script_exit(exit_status) ==
    /\ pc = "running"
    /\ pc' = "exited"
    /\ run' = [run EXCEPT !.exit_status = exit_status,
                          !.returncode = ReturnCode(exit_status),
                          !.printed = IF ReturnCode(exit_status) = 0
                                      THEN "Setup completed successfully!"
                                      ELSE "Setup failed with exit code"]
    /\ trace' = Append(trace, "exit")
    /\ last' = [op |-> "script_exit"]
    /\ UNCHANGED <<screen, appVars, focus, fs, dirVars, repoVars, gh_calls, ui>>

\* a slip: the display comes back before input() has returned
AckEventsResumeFirst == <<"resume", "ack", "status">>

\* run_setup from input() on: the operator's line, the end of the with block,
\* the log and status bar
AckEvents == <<"ack", "resume", "status">>

\* run_setup: the operator's line ends input(), the with block ends and the
\* display comes back, then the log and the status bar are written
acknowledge ==
    /\ pc = "exited"
    /\ pc' = "ui"
    /\ ui' = "INTERACTIVE_UI"
    /\ trace' = trace \o AckEvents
    /\ IF run.returncode = 0
       THEN /\ log' = << [line |-> "Setup completed for", name |-> run.project_name, arg |-> 0] >>
            /\ status' = update_status("Environment created successfully!", 0, FALSE, TRUE)
       ELSE /\ log' = << [line |-> "Setup failed with exit code", name |-> <<>>,
                          arg |-> run.returncode] >>
            /\ status' = update_status("Setup failed (exit code)", run.returncode, TRUE, FALSE)
    /\ last' = [op |-> "acknowledge"]
    /\ UNCHANGED <<screen, target_dir, target_dir_display, github_repos, selected_repo,
                   repo_display, focus, fs, dirVars, repoVars, gh_calls, run>>

NextRun ==
    \/ \E name_typed \in ProjectNames, version \in Versions, db_typed \in DbNames,
          install_precommit \in BOOLEAN, script_exists \in BOOLEAN,
          inherited \in Environs :
          on_create(name_typed, version, db_typed, install_precommit, script_exists,
                    inherited)
    \/ \E bash_found \in BOOLEAN : spawn(bash_found)
    \/ \E exit_status \in ExitCodes : script_exit(exit_status)
    \/ acknowledge

\* the forms a submission may find: the one the program starts with, and the
\* one the pickers lead to (a target directory picked, a repository loaded and
\* chosen)
InitRun ==
    \/ Init
    \/ MainScreen(Home, <<Repo(<<"A">>, <<"u1">>)>>, <<"u1">>, <<"A">>,
                  update_status("Loaded repos", 1, FALSE, FALSE))

\* the program when only the form is submitted
SpecRun == InitRun /\ [][NextRun]_vars

(***************************************************************************)
(* The Path Filter on its own.                                             *)
(***************************************************************************)
\* the entries a directory scan may hand to filter_paths: a hidden folder, a
\* visible one, one with a dot that does not lead, a visible one inside a
\* hidden one, and the root (whose name is empty)
Entries ==
    { JoinPath(Home, <<".", "c">>), JoinPath(Home, <<"s">>), JoinPath(Home, <<"c", ".">>),
      JoinPath(Home, <<".", "c", "/", "s">>), JoinPath(Home, <<"/">>) }

\* the tree loads one directory level and passes its entries through
\* FilteredDirectoryTree.filter_paths
load_directory(paths) ==
    /\ last' = [op |-> "filter_paths", paths |-> paths, result |-> filter_paths(paths)]
    /\ UNCHANGED <<screen, appVars, focus, fs, dirVars, repoVars, gh_calls, runVars>>

NextFilter == \E paths \in SeqsUpTo(Entries, MaxEntries) : load_directory(paths)

\* the Path Filter applied to every sequence of entries
SpecFilter == Init /\ [][NextFilter]_vars

(***************************************************************************)
(* The two pickers and the form they report to.                            *)
(***************************************************************************)
\* opening, choosing in and dismissing either picker
NextPickers ==
    \/ on_browse
    \/ \E path \in tree : on_directory_selected(path)
    \/ dir_on_select
    \/ dir_action_cancel
    \/ on_select_repo
    \/ \E option \in RepoUniverse : on_option_highlighted(option)
    \/ repo_on_select
    \/ repo_on_clear
    \/ repo_action_cancel

\* the program when both pickers are opened and dismissed, in any order
SpecPickers == Init /\ [][NextPickers]_vars

\* the whole program
Next == NextDir \/ NextRepo \/ NextRun

Spec == Init /\ [][Next]_vars

(***************************************************************************)
(* Directory Picker: properties.                                           *)
(***************************************************************************)
\* the latest handler was a folder creation that went through
CreatedNow == last.op = "on_create_folder" /\ last.err = "none"

\* the selection a creation starts from: P, or start_path when nothing is selected
ParentOf(before) == IF before = NoPath THEN start_path ELSE before

\* the latest handler created, right after a creation of the same name, with the
\* selection left where that first creation put it
CreatedSameAgain ==
    /\ CreatedNow
    /\ last.prev # NoCreate
    /\ strip(last.prev.typed) = strip(last.typed)
    /\ last.before = last.prev.path

\* C2 as claimed: creating N at P selects P/N and clears the input, and a second
\* creation with the same name N leaves the selection at P/N
C2_SecondCreationKeepsSelection ==
    /\ CreatedNow =>
          /\ selected_path = JoinPath(ParentOf(last.before), strip(last.typed))
          /\ dir_input = <<>>
    /\ CreatedSameAgain => selected_path = last.prev.path

\* C2 amended: a creation the filesystem does not refuse selects P/N (P the
\* selection, start_path when there is none) and clears the input, the folder
\* then exists, and a folder that already exists is no error; the same name
\* entered again is created under the new selection, so the selection becomes
\* P/N/N and stays at P/N only when N is absolute or names no component
C2_CreateSelectsJoin ==
    /\ CreatedNow =>
          /\ selected_path = JoinPath(ParentOf(last.before), strip(last.typed))
          /\ dir_input = <<>>
          /\ selected_path.parts \in fs
    /\ last.op = "on_create_folder" => last.err \in {"none", "OSError", "return"}
    /\ CreatedSameAgain =>
          /\ selected_path = JoinPath(last.prev.path, strip(last.typed))
          /\ (selected_path = last.prev.path) <=>
                (PathRoot(strip(last.typed)) # <<>> \/ PathParts(strip(last.typed)) = <<>>)

\* C2 witness: the same relative name was created twice in a row and the
\* selection moved one level down
C2_Witness ==
    /\ CreatedSameAgain
    /\ last.prev.path = JoinPath(Home, <<"s">>)
    /\ selected_path = JoinPath(JoinPath(Home, <<"s">>), <<"s">>)

\* C4: Select dismisses with the selection when there is one and with start_path
\* otherwise, never with None, and the form takes that path; Cancel (button or
\* escape) dismisses with None whatever the selection
C4_SelectNeverNull ==
    /\ last.op = "dir_on_select" =>
          /\ last.path = (IF last.had # NoPath THEN last.had ELSE last.start)
          /\ last.path # NoPath
          /\ target_dir = last.path
    /\ last.op = "dir_action_cancel" => last.path = NoPath

\* C4 witness: Select pressed with nothing selected gave start_path
C4_Witness ==
    /\ last.op = "dir_on_select"
    /\ last.had = NoPath
    /\ last.path = Home
    /\ target_dir = Home

\* C14: a folder creation the filesystem refuses is caught: the readout shows
\* an error, the picker stays open and can still be confirmed or cancelled, and
\* the selection (and the typed name) is as it was before the attempt
C14_CreateFailureCaught ==
    (last.op = "on_create_folder" /\ last.err = "OSError") =>
        /\ screen = "dir"
        /\ pc = "ui"
        /\ dir_readout.kind = "Error"
        /\ selected_path = last.before
        /\ dir_input = last.typed
        /\ created = last.prev
        /\ ENABLED dir_on_select
        /\ ENABLED dir_action_cancel

\* C14 witness: a creation was refused after an earlier one had moved the
\* selection
C14_Witness ==
    /\ last.op = "on_create_folder"
    /\ last.err = "OSError"
    /\ last.before = JoinPath(Home, <<"s">>)
    /\ selected_path = JoinPath(Home, <<"s">>)
    /\ created # NoCreate
    /\ dir_readout.kind = "Error"

(***************************************************************************)
(* Candidate Cache and Repository Picker: properties.                      *)
(***************************************************************************)
\* the latest handler was on_select_repo and it went to the listing source
LoadTried == last.op = "on_select_repo" /\ ~last.cached

\* a listing call that contributes nothing
YieldsNothing(o) == o.kind # "ok" \/ o.entries = <<>>

\* a listing call that fails
CallFailed(o) == o.kind \in {"nonzero", "absent", "unusable"}

\* a listing call that returns a non-empty list
CallGave(o) == o.kind = "ok" /\ o.entries # <<>>

\* a listing call that ran to the end and returned nothing
RanEmpty(o) == o.kind = "nonzero" \/ (o.kind = "ok" /\ o.entries = <<>>)

\* C1 as claimed: no two entries of the Candidate Cache share a url
C1_UniqueIdentifiers ==
    \A i, j \in 1..Len(github_repos) :
        i # j => github_repos[i].url # github_repos[j].url

\* two letters that differ by case at most
SameLetter(c, d) == c = d \/ {c, d} = {"a", "A"} \/ {c, d} = {"b", "B"}

\* q occurs in name, case ignored
OccursIn(q, name) ==
    \E k \in 0..Len(name) :
        /\ k + Len(q) <= Len(name)
        /\ \A j \in 1..Len(q) : SameLetter(q[j], name[k + j])

RECURSIVE Matching(_, _)
\* the subsequence of candidates whose name holds q, case ignored
Matching(candidates, q) ==
    IF candidates = <<>> THEN <<>>
    ELSE IF OccursIn(q, Head(candidates).name)
    THEN <<Head(candidates)>> \o Matching(Tail(candidates), q)
    ELSE Matching(Tail(candidates), q)

\* C3: while the Repository Picker is open, the visible subset (the tracked list
\* and the options on screen) is the subsequence of all candidates, in cache
\* order, whose name holds the current query, case ignored; it is all candidates
\* when the picker opens; so it depends on the final query only
C3_VisibleIsMatching ==
    /\ screen = "repo" =>
          /\ repos = github_repos
          /\ filtered_repos = Matching(repos, query)
          /\ options = filtered_repos
    /\ (screen = "repo" /\ last.op = "on_select_repo") =>
          /\ query = <<>>
          /\ filtered_repos = github_repos

\* C3 witness: "ab" was typed, then "a", and the subset widened to three
\* candidates
C3_Witness ==
    /\ screen = "repo"
    /\ last.op = "on_search_changed"
    /\ lower(last.from) = <<"a", "b">>
    /\ query = <<"a">>
    /\ Len(filtered_repos) = 3
    /\ Len(Matching(repos, last.from)) = 1

\* C5: Clear dismisses with the empty string and Cancel (button or escape) with
\* None, whatever identifier is tracked
C5_ClearAndCancel ==
    /\ last.op = "repo_on_clear" => (last.url = EmptyStr /\ selected_repo = EmptyStr)
    /\ last.op = "repo_action_cancel" =>
          (last.url = NoneStr /\ selected_repo = last.repo_before)

\* C5 witness: Clear pressed while an identifier was tracked and another chosen
C5_Witness ==
    /\ last.op = "repo_on_clear"
    /\ last.had = <<"u1">>
    /\ last.repo_before = <<"u2">>

\* C8: once the cache holds candidates it never changes, and an invocation of
\* the picker then issues no listing call and presents the cache
C8_CacheFrozen ==
    [][github_repos # <<>> =>
          /\ github_repos' = github_repos
          /\ (screen = "main" /\ screen' = "repo") =>
                (gh_calls' = 0 /\ repos' = github_repos)]_vars

\* C8 witness: the picker opened from the cache after an identifier was chosen
C8_Witness ==
    /\ screen = "repo"
    /\ last.op = "on_select_repo"
    /\ last.cached
    /\ gh_calls = 0
    /\ selected_repo = <<"u2">>
    /\ Len(repos) = 3

\* C9: a load in which every call fails or returns an empty list leaves an error
\* in the status bar, the picker closed and the cache empty; no gh to run is
\* reported differently from gh having run and returned nothing; and an
\* invocation that follows a failed load issues listing calls again
C9_AllSourcesEmpty ==
    /\ (LoadTried /\ YieldsNothing(last.fetch[1]) /\ YieldsNothing(last.fetch[2])) =>
          /\ status.style = "error"
          /\ status.msg \in LoadFailures
          /\ screen = "main"
          /\ RepoPickerClosed
          /\ github_repos = <<>>
          /\ ("absent" \in {last.fetch[1].kind, last.fetch[2].kind}) =>
                status.msg = "gh CLI not found. Install it"
          /\ (RanEmpty(last.fetch[1]) /\ RanEmpty(last.fetch[2])) =>
                status.msg = "Failed to load repos. Is gh authenticated?"
    /\ (last.op = "on_select_repo" /\ last.retry) => (~last.cached /\ gh_calls >= 1)

\* C9 witness: a load that follows a failed load ran both calls and got nothing
C9_Witness ==
    /\ LoadTried
    /\ last.retry
    /\ last.fetch[1].kind = "nonzero"
    /\ last.fetch[2] = [kind |-> "ok", entries |-> <<>>]
    /\ gh_calls = 2

\* C10 as claimed: when one call fails and the other returns a non-empty list,
\* the load succeeds with exactly the other call's entries and the picker opens
C10_OneSourceFails ==
    /\ (LoadTried /\ CallFailed(last.fetch[1]) /\ CallGave(last.fetch[2])) =>
          /\ screen = "repo"
          /\ status.style # "error"
          /\ SeqRange(github_repos) = SeqRange(last.fetch[2].entries)
    /\ (LoadTried /\ CallGave(last.fetch[1]) /\ CallFailed(last.fetch[2])) =>
          /\ screen = "repo"
          /\ status.style # "error"
          /\ SeqRange(github_repos) = SeqRange(last.fetch[1].entries)

\* C13 as claimed: Select pressed on a non-empty list while nothing was ever
\* highlighted leaves the form as Clear does: no repository chosen, "(none)"
\* displayed
C13_NullSelectClears ==
    (last.op = "repo_on_select" /\ last.had = NoneStr /\ last.shown # <<>>) =>
        /\ selected_repo = EmptyStr
        /\ repo_display = <<"(none)">>

\* the adjacent entries of the cache stand in case-insensitive name order
NamesAscend(cache) ==
    \A i \in 1..(Len(cache) - 1) :
        ~StrLess(lower(cache[i + 1].name), lower(cache[i].name))

\* C16: the Candidate Cache, which only a successful load fills, is ordered by
\* display name compared case-insensitively: of two adjacent entries the
\* lower-cased name of the first is less than or equal to that of the second;
\* and it holds exactly the (name, url) pairs the calls returned
C16_CacheSortedByName ==
    /\ NamesAscend(github_repos)
    /\ (LoadTried /\ screen = "repo") =>
          SeqRange(github_repos) =
              SeqRange(last.fetch[1].entries) \cup SeqRange(last.fetch[2].entries)

\* C16 witness: a load of three entries put "a" before "A" before "ab"
C16_Witness ==
    /\ LoadTried
    /\ screen = "repo"
    /\ Len(github_repos) = 3
    /\ github_repos[1].name = <<"a">>
    /\ github_repos[2].name = <<"A">>
    /\ github_repos[3].name = <<"a", "b">>

\* C20 as claimed: the identifier Select returns, when it is not None, is the
\* identifier of a candidate of the visible subset
C20_SelectReturnsVisible ==
    (last.op = "repo_on_select" /\ last.url # NoneStr) =>
        \E i \in 1..Len(last.shown) : last.shown[i].url = last.url

(***************************************************************************)
(* Execution Handoff: properties.                                          *)
(***************************************************************************)
\* how often event e stands in the trace
Count(events, e) == Cardinality({k \in 1..Len(events) : events[k] = e})

\* C6: a script that started and exited with status c is reported with exactly
\* c: as success when c = 0, as a failure with the number c otherwise, on the
\* terminal, in the log and in the status bar; the display is suspended while
\* the script runs and waits, and comes back once, after the acknowledgement
C6_ExitStatusVerbatim ==
    /\ pc \in {"suspended", "running", "exited"} => ui = "FOREGROUND_PROCESS"
    /\ pc = "ui" => ui = "INTERACTIVE_UI"
    /\ pc = "exited" =>
          /\ run.returncode = run.exit_status
          /\ (run.printed = "Setup completed successfully!") <=> (run.exit_status = 0)
          /\ (run.printed = "Setup failed with exit code") <=> (run.exit_status # 0)
          /\ Count(trace, "resume") = 0
    /\ last.op = "acknowledge" =>
          /\ trace = <<"suspend", "start", "exit", "ack", "resume", "status">>
          /\ IF run.exit_status = 0
             THEN /\ status = [msg |-> "Environment created successfully!", arg |-> 0,
                               style |-> "success"]
                  /\ log = << [line |-> "Setup completed for", name |-> run.project_name,
                               arg |-> 0] >>
             ELSE /\ status = [msg |-> "Setup failed (exit code)",
                               arg |-> run.exit_status, style |-> "error"]
                  /\ log = << [line |-> "Setup failed with exit code", name |-> <<>>,
                               arg |-> run.exit_status] >>

\* C6 witness: a script that exited with status 3 was acknowledged
C6_Witness ==
    /\ last.op = "acknowledge"
    /\ run.exit_status = 3
    /\ status.arg = 3
    /\ ui = "INTERACTIVE_UI"

\* C7 as claimed: in the environment of a started script BASE_PATH is the
\* target directory, DB_NAME is set exactly when a database name was supplied,
\* INSTALL_PRECOMMIT is set, to 1, exactly when the checkbox was checked, and
\* CLONE_REPO is set exactly when a repository was chosen
C7_EnvFromFormOnly ==
    run.started =>
        /\ run.env["BASE_PATH"] = PathStr(run.base)
        /\ (run.env["DB_NAME"] # Unset) <=> (run.db_name # <<>>)
        /\ (run.env["INSTALL_PRECOMMIT"] # Unset) <=> run.install_precommit
        /\ run.install_precommit => run.env["INSTALL_PRECOMMIT"] = <<"1">>
        /\ (run.env["CLONE_REPO"] # Unset) <=> (run.clone_repo # <<>>)

\* C11 as claimed: a script file that is missing and an interpreter that is
\* missing are both reported with an error status that is not the status of a
\* script that exited non-zero, the session goes on, and for a missing script
\* nothing is spawned and the display is not suspended
C11_PreflightReported ==
    /\ (last.op = "on_create" /\ last.outcome = "no script") =>
          /\ status = [msg |-> "Setup script not found!", arg |-> 0, style |-> "error"]
          /\ pc = "ui"
          /\ ui = "INTERACTIVE_UI"
    /\ pc # "crashed"
    /\ (last.op = "spawn" /\ ~run.started) =>
          /\ status.style = "error"
          /\ status.msg # "Setup failed (exit code)"

\* a project name, stripped, that the form must reject: empty, or with a
\* character left that is no letter or digit once "-" and "_" are removed
MustReject(name) ==
    \/ name = <<>>
    \/ \A k \in 1..Len(name) : name[k] \in {"-", "_"}
    \/ \E k \in 1..Len(name) : name[k] \in {" ", "!", ".", "/"}

\* C12 as claimed: a submission with such a name is rejected with an error
\* message, the focus goes to the project-name field and no handoff starts; the
\* name "p-1_8" is accepted
C12_RejectedRefocuses ==
    /\ (last.op = "on_create" /\ MustReject(strip(last.given.name_typed))) =>
          /\ last.outcome = "rejected"
          /\ status.style = "error"
          /\ focus = "project-name"
          /\ pc = "ui"
          /\ ui = "INTERACTIVE_UI"
    /\ (last.op = "on_create" /\ ~MustReject(strip(last.given.name_typed))) =>
          last.outcome # "rejected"

\* the events of a handoff that runs to its end, in order
HandoffOrder == <<"suspend", "start", "exit", "ack", "resume", "status">>

C18_OneHandoffInFlight ==
    [][ui = "FOREGROUND_PROCESS" =>
          /\ last'.op # "on_create"
          /\ Count(trace', "suspend") = 1
          /\ Count(trace', "start") <= 1
          /\ run'.project_name = run.project_name
          /\ run'.env = run.env]_vars

\* C18 witness: a second handoff begins after the first was acknowledged
C18_Witness ==
    /\ last.op = "on_create"
    /\ last.outcome = "suspended"
    /\ pc = "suspended"
    /\ log # <<>>

(***************************************************************************)
(* Path Filter: properties.                                                *)
(***************************************************************************)
\* the last component of the path begins with "."
HasDotName(p) ==
    /\ p.parts # <<>>
    /\ p.parts[Len(p.parts)] # <<>>
    /\ p.parts[Len(p.parts)][1] = "."

RECURSIVE KeepVisible(_)
\* the subsequence of the entries whose name does not begin with "."
KeepVisible(paths) ==
    IF paths = <<>> THEN <<>>
    ELSE IF HasDotName(Head(paths)) THEN KeepVisible(Tail(paths))
    ELSE <<Head(paths)>> \o KeepVisible(Tail(paths))

\* C15: for every sequence of entries the Path Filter returns exactly the
\* subsequence of the entries whose name does not begin with ".": no hidden
\* entry is left, every other entry is kept as often as it came, order kept
C15_FilterIsVisibleSubsequence ==
    last.op = "filter_paths" =>
        /\ last.result = KeepVisible(last.paths)
        /\ \A i \in 1..Len(last.result) : ~HasDotName(last.result[i])
        /\ Len(last.result) =
              Len(last.paths) - Cardinality({i \in 1..Len(last.paths) : HasDotName(last.paths[i])})

\* C15 witness: of a hidden entry, an entry with a dot at its end and an entry
\* inside a hidden folder, the last two came back, in that order
C15_Witness ==
    /\ last.op = "filter_paths"
    /\ last.paths = << JoinPath(Home, <<".", "c">>), JoinPath(Home, <<"c", ".">>),
                       JoinPath(Home, <<".", "c", "/", "s">>) >>
    /\ last.result = << JoinPath(Home, <<"c", ".">>), JoinPath(Home, <<".", "c", "/", "s">>) >>

(***************************************************************************)
(* The form under dismissals: properties.                                  *)
(***************************************************************************)
\* C19: a picker dismissed with None leaves the form as it was: the target
\* directory and its display when it is the Directory Picker, the chosen
\* repository and its display when it is the Repository Picker
C19_CancelLeavesForm ==
    [][/\ (screen = "dir" /\ screen' = "main" /\ last'.path = NoPath) =>
             UNCHANGED <<appVars, focus, fs>>
       /\ (screen = "repo" /\ screen' = "main" /\ last'.url = NoneStr) =>
             UNCHANGED <<appVars, focus, fs>>]_vars

\* C19 witness: the Directory Picker was cancelled with a folder selected in
\* it, after another directory and a repository had been chosen
C19_Witness ==
    /\ last.op = "dir_action_cancel"
    /\ last.had = JoinPath(Home, <<"s">>)
    /\ target_dir = Home
    /\ selected_repo = <<"u2">>
    /\ repo_display = <<"a">>

====
